---- MODULE Spec2Model ----
(***************************************************************************)
(* ksuid-rs: the base62 codec (src/src/base62.rs) and the KSUID value type *)
(* built on it (src/src/ksuid.rs).                                         *)
(*                                                                         *)
(* Number representation.  TLC's integers are 32-bit signed, while the     *)
(* code computes on u32 limbs and u64 intermediates.  A u32 is therefore   *)
(* held as the pair <<hi, lo>> of its 16-bit halves (value hi*65536 + lo), *)
(* and each u64 division or multiplication of the code is carried out by   *)
(* exact schoolbook arithmetic on the halves.  An i64 second count is held *)
(* as <<q, r>> with value q*65536 + r, 0 <= r < 65536, q signed.           *)
(*                                                                         *)
(* A string is the sequence of its characters (Unicode code points); its   *)
(* bytes are its UTF-8 encoding (utf8).  A byte array is a sequence of     *)
(* numbers 0..255.  Indices keep the 0-based values of the source; the     *)
(* element at source index i is element i+1 of the TLA+ sequence.          *)
(***************************************************************************)
EXTENDS Integers, Sequences, FiniteSets, TLC

VARIABLES
    id,        \* the KSUID held by the caller: its 20 bytes, or NoId
    made,      \* the constructor call that was made: arguments and return value
    ts_read,   \* what KSUID::timestamp() returned, or None
    enc,       \* the frame of base62::encode (locals of lines 30-50)
    dec,       \* the frame of base62::decode (locals of lines 73-91) and its return value
    parsed     \* what KSUID::from_base62 returned, or None

vars == <<id, made, ts_read, enc, dec, parsed>>

None == [op |-> "none"]
NoId == <<>>

----------------------------------------------------------------------------
(* Program constants *)

BASE == 62
\* Variant of the alphabet with the lower-case letters before the upper-case
\* ones: "0123456789abcdefghijklmnopqrstuvwxyzABCDEFGHIJKLMNOPQRSTUVWXYZ"
BASE62_CHARS_LowerFirst ==
    <<48, 49, 50, 51, 52, 53, 54, 55, 56, 57,
      97, 98, 99, 100, 101, 102, 103, 104, 105, 106, 107, 108, 109,
      110, 111, 112, 113, 114, 115, 116, 117, 118, 119, 120, 121, 122,
      65, 66, 67, 68, 69, 70, 71, 72, 73, 74, 75, 76, 77,
      78, 79, 80, 81, 82, 83, 84, 85, 86, 87, 88, 89, 90>>

BASE62_CHARS ==
    <<48, 49, 50, 51, 52, 53, 54, 55, 56, 57,
      65, 66, 67, 68, 69, 70, 71, 72, 73, 74, 75, 76, 77,
      78, 79, 80, 81, 82, 83, 84, 85, 86, 87, 88, 89, 90,
      97, 98, 99, 100, 101, 102, 103, 104, 105, 106, 107, 108, 109,
      110, 111, 112, 113, 114, 115, 116, 117, 118, 119, 120, 121, 122>>
UPPERCASE_OFFSET == 10
LOWERCASE_OFFSET == 36

EPOCH_START == 1400000000
TIMESTAMP_LENGTH == 4
PAYLOAD_LENGTH == 16
BYTE_LENGTH == TIMESTAMP_LENGTH + PAYLOAD_LENGTH
ENCODED_LENGTH == 27
\* "aWgEPTl1tmebfsQzFP4bxwgy80V"
MAX_STRING_ENCODED ==
    <<97, 87, 103, 69, 80, 84, 108, 49, 116, 109, 101, 98, 102, 115,
      81, 122, 70, 80, 52, 98, 120, 119, 103, 121, 56, 48, 86>>

\* 2^16, the radix of the halves a u32 is held in
HALF == 65536
\* 2^8
BYTE == 256

----------------------------------------------------------------------------
(* Helpers of the representation *)

Take(s, k) == SubSeq(s, 1, k)
\* The sequence of k copies of x (iter::repeat(x).take(k), [x; k])
RECURSIVE Repeat(_, _)
Repeat(x, k) == IF k = 0 THEN <<>> ELSE Append(Repeat(x, k - 1), x)

\* Variant of read_u32 that reads the four bytes least significant first
read_u32_LittleEndian(src, o) ==
    <<src[o + 4] * BYTE + src[o + 3], src[o + 2] * BYTE + src[o + 1]>>

\* BigEndian::read_u32(&src[o..]): four bytes at 0-based offset o, as <<hi, lo>>
read_u32(src, o) ==
    <<src[o + 1] * BYTE + src[o + 2], src[o + 3] * BYTE + src[o + 4]>>

\* BigEndian::write_u32: the four bytes of the u32 w, most significant first
write_u32(w) ==
    <<w[1] \div BYTE, w[1] % BYTE, w[2] \div BYTE, w[2] % BYTE>>

----------------------------------------------------------------------------
(* base62::encode *)

\* Variant of the division step that does not carry the remainder of the
\* limb before into the dividend
EncodeDivStepNoCarry(limb, remainder) ==
    LET t1 == limb[1]
        t2 == (t1 % BASE) * HALF + limb[2]
    IN  [digit |-> <<(t1 \div BASE) % HALF, (t2 \div BASE) % HALF>>,
         remainder |-> t2 % BASE]

\* Lines 55-57 on one limb: value = limb + remainder * 2^32, divided by BASE.
\* remainder < 62, so value < 62 * 2^32 and digit < 2^32: `digit as u32` keeps it.
EncodeDivStep(limb, remainder) ==
    LET t1 == remainder * HALF + limb[1]
        t2 == (t1 % BASE) * HALF + limb[2]
    IN  [digit |-> <<(t1 \div BASE) % HALF, (t2 \div BASE) % HALF>>,
         remainder |-> t2 % BASE]

\* Variant that keeps every quotient limb, leading zeros included
EncodeKeepsAll(bq_index, digit) == TRUE

\* Lines 58-61: the quotient limb is kept unless it is a leading zero
EncodeKeeps(bq_index, digit) == bq_index > 0 \/ digit # <<0, 0>>

\* Lines 54-62: the for loop over p_index in 0..parts_len, from p_index on
RECURSIVE EncodeFor(_, _, _, _, _)
EncodeFor(parts, parts_len, p_index, bq_index, remainder) ==
    IF p_index >= parts_len
    THEN [parts |-> parts, bq_index |-> bq_index, remainder |-> remainder]
    ELSE LET d == EncodeDivStep(parts[p_index + 1], remainder)
         IN  IF EncodeKeeps(bq_index, d.digit)
             THEN EncodeFor([parts EXCEPT ![bq_index + 1] = d.digit],
                            parts_len, p_index + 1, bq_index + 1, d.remainder)
             ELSE EncodeFor(parts, parts_len, p_index + 1, bq_index, d.remainder)

\* Lines 30-50: the frame on entry to the while loop
EncodeEntry(src) ==
    [pc |-> "loop",
     src |-> src,
     parts |-> <<read_u32(src, 0), read_u32(src, 4), read_u32(src, 8),
                 read_u32(src, 12), read_u32(src, 16)>>,
     parts_len |-> 5,
     n |-> 27,
     dst |-> Repeat(48, 27)]

\* Line 51 and line 67: the loop test; leaving the loop returns dst
EncodeTest(f) ==
    IF f.parts_len > 0 THEN f ELSE [f EXCEPT !.pc = "done"]

\* Lines 52-65: one pass of the while loop.  n is a usize: n -= 1 at n = 0
\* overflows (a panic, or a wrapped index that panics at dst[n]).
EncodePass(f) ==
    LET r == EncodeFor(f.parts, f.parts_len, 0, 0, 0)
    IN  IF f.n = 0
        THEN [f EXCEPT !.pc = "panic"]
        ELSE EncodeTest([f EXCEPT !.parts = r.parts,
                                  !.n = f.n - 1,
                                  !.dst[f.n] = BASE62_CHARS[r.remainder + 1],
                                  !.parts_len = r.bq_index])

\* Lines 51-67: the while loop run to its end
RECURSIVE EncodeLoop(_)
EncodeLoop(f) == IF f.pc = "loop" THEN EncodeLoop(EncodePass(f)) ELSE f

\* base62::encode(src): the returned string
encode(src) == EncodeLoop(EncodeTest(EncodeEntry(src))).dst

----------------------------------------------------------------------------
(* Return values *)

Ok(v) == [ok |-> TRUE, value |-> v]
SliceTooSmall(length) == [ok |-> FALSE, err |-> "SliceTooSmall", length |-> length]
InvalidBase62Character(value) ==
    [ok |-> FALSE, err |-> "InvalidBase62Character", value |-> value]
InvalidBase62Length(value) ==
    [ok |-> FALSE, err |-> "InvalidBase62Length", value |-> value]

----------------------------------------------------------------------------
(* base62::decode *)

\* The UTF-8 bytes of one character (code points below 0x800)
Utf8Char(c) ==
    IF c < 128 THEN <<c>> ELSE <<192 + (c \div 64), 128 + (c % 64)>>

\* str::as_bytes: the UTF-8 bytes of a string; str::len is their number
RECURSIVE utf8(_)
utf8(s) == IF s = <<>> THEN <<>> ELSE Utf8Char(Head(s)) \o utf8(Tail(s))

\* u8 arithmetic.  An overflow panics in a build with overflow checks and wraps
\* in one without; Panic is the value of a panicked expression.
Panic == -1
SubU8(a, b, overflow_checks) ==
    IF a = Panic \/ b = Panic THEN Panic
    ELSE IF a - b < 0 /\ overflow_checks THEN Panic
    ELSE (a - b) % BYTE
AddU8(a, b, overflow_checks) ==
    IF a = Panic \/ b = Panic THEN Panic
    ELSE IF a + b >= BYTE /\ overflow_checks THEN Panic
    ELSE (a + b) % BYTE

\* Lines 14-22
base62_value(digit, overflow_checks) ==
    IF digit >= 48 /\ digit <= 57
    THEN SubU8(digit, 48, overflow_checks)
    ELSE IF digit >= 65 /\ digit <= 90
    THEN AddU8(UPPERCASE_OFFSET, SubU8(digit, 65, overflow_checks), overflow_checks)
    ELSE AddU8(LOWERCASE_OFFSET, SubU8(digit, 97, overflow_checks), overflow_checks)

\* Lines 98-100 on one digit: value = digit + remainder * BASE, divided by 2^32.
\* remainder is a u32 <<hi, lo>>; the quotient is stored `as u8`.
DecodeDivStep(part, remainder) ==
    LET lo == remainder[2] * BASE + part
        hi == remainder[1] * BASE + (lo \div HALF)
    IN  [digit |-> (hi \div HALF) % BYTE,
         remainder |-> <<hi % HALF, lo % HALF>>]

\* Variant that drops every zero quotient digit, not only the leading ones
DecodeKeepsNonZero(bq_index, digit) == digit # 0

\* Lines 101-104
DecodeKeeps(bq_index, digit) == bq_index > 0 \/ digit # 0

\* Lines 97-105: the for loop over p_index in 0..parts_len, from p_index on
RECURSIVE DecodeFor(_, _, _, _, _)
DecodeFor(parts, parts_len, p_index, bq_index, remainder) ==
    IF p_index >= parts_len
    THEN [parts |-> parts, bq_index |-> bq_index, remainder |-> remainder]
    ELSE LET d == DecodeDivStep(parts[p_index + 1], remainder)
         IN  IF DecodeKeeps(bq_index, d.digit)
             THEN DecodeFor([parts EXCEPT ![bq_index + 1] = d.digit],
                            parts_len, p_index + 1, bq_index + 1, d.remainder)
             ELSE DecodeFor(parts, parts_len, p_index + 1, bq_index, d.remainder)

DecodeIdle ==
    [pc |-> "idle", src |-> <<>>, parts |-> <<>>, parts_len |-> 0, n |-> 0,
     result |-> <<>>, ret |-> None]

\* Lines 76-78: the length test, on the byte length of src
DecodeShort(src) == Len(utf8(src)) < 27

\* Lines 76-78: what the length test returns
DecodeShortError(src) == InvalidBase62Character(src)

\* Variant of the budget test that is off by one
DecodeNoBudgetOffByOne(n) == n <= 4

\* Lines 106-108: the output budget test
DecodeNoBudget(n) == n < 4

\* Line 93 and line 117: the loop test; leaving the loop returns Ok(result)
DecodeTest(f) ==
    IF f.parts_len > 0 THEN f
    ELSE [f EXCEPT !.pc = "returned", !.ret = Ok(f.result)]

\* Lines 82-87: base62_value mapped over the bytes, the first k of them taken
\* (the iterator is lazy: base62_value runs on those k bytes only)
RECURSIVE MapTake(_, _, _)
MapTake(bytes, k, overflow_checks) ==
    IF k = 0 THEN <<>>
    ELSE Append(MapTake(bytes, k - 1, overflow_checks),
                base62_value(bytes[k], overflow_checks))

\* Lines 73-91: the frame on entry to the while loop, or the early return
DecodeEntry(src, overflow_checks) ==
    LET bytes == utf8(src)
        vals == MapTake(bytes, 27, overflow_checks)
    IN  IF DecodeShort(src)
        THEN [DecodeIdle EXCEPT !.pc = "returned", !.src = src,
                                !.ret = DecodeShortError(src)]
        ELSE IF \E i \in 1..27 : vals[i] = Panic
        THEN [DecodeIdle EXCEPT !.pc = "panic", !.src = src]
        ELSE DecodeTest([pc |-> "loop", src |-> src, parts |-> vals, parts_len |-> 27,
                         n |-> 20, result |-> Repeat(0, 20), ret |-> None])

\* Lines 94-115: one pass of the while loop
DecodePass(f) ==
    LET r == DecodeFor(f.parts, f.parts_len, 0, 0, <<0, 0>>)
        w == write_u32(r.remainder)
    IN  IF DecodeNoBudget(f.n)
        THEN [f EXCEPT !.pc = "returned", !.ret = InvalidBase62Length(f.src)]
        ELSE DecodeTest([f EXCEPT !.parts = r.parts,
                                  !.result[f.n - 3] = w[1],
                                  !.result[f.n - 2] = w[2],
                                  !.result[f.n - 1] = w[3],
                                  !.result[f.n] = w[4],
                                  !.n = f.n - 4,
                                  !.parts_len = r.bq_index])

\* Lines 93-117: the while loop run to its end
RECURSIVE DecodeLoop(_)
DecodeLoop(f) == IF f.pc = "loop" THEN DecodeLoop(DecodePass(f)) ELSE f

\* base62::decode(src): the frame it ends in (ret is the return value;
\* pc = "panic" when the call panicked)
decode(src, overflow_checks) == DecodeLoop(DecodeEntry(src, overflow_checks))

----------------------------------------------------------------------------
(* ksuid.rs *)

\* An i64 second count n as <<q, r>>
I64(hi, lo) == <<hi + (lo \div HALF), lo % HALF>>
EpochStart == I64(EPOCH_START \div HALF, EPOCH_START % HALF)

\* Variant that does not subtract the epoch: t.timestamp() as u32
to_ksuid_time_NoEpoch(t) == <<t.secs[1] % HALF, t.secs[2]>>

\* Lines 27-29: (t.timestamp() - EPOCH_START) as u32
to_ksuid_time(t) ==
    LET d == I64(t.secs[1] - EpochStart[1], t.secs[2] - EpochStart[2])
    IN  <<d[1] % HALF, d[2]>>

\* Lines 31-39: the time i64::from(t) + EPOCH_START seconds, 0 nanoseconds
from_ksuid_time(t) ==
    [secs |-> I64(t[1] + EpochStart[1], t[2] + EpochStart[2]), nanos |-> 0]

\* Lines 75-83
from_parts(ts, payload) ==
    IF Len(payload) < PAYLOAD_LENGTH
    THEN SliceTooSmall(Len(payload))
    ELSE Ok(write_u32(to_ksuid_time(ts)) \o Take(payload, PAYLOAD_LENGTH))

\* Variant of from_bytes whose length test is off by one
from_bytes_OffByOne(bytes) ==
    IF Len(bytes) <= BYTE_LENGTH
    THEN SliceTooSmall(Len(bytes))
    ELSE Ok(Take(bytes, BYTE_LENGTH))

\* Lines 95-102
from_bytes(bytes) ==
    IF Len(bytes) < BYTE_LENGTH
    THEN SliceTooSmall(Len(bytes))
    ELSE Ok(Take(bytes, BYTE_LENGTH))

\* Lines 58-64: KSUID::new with the clock reading `now` and the 20 random bytes `rnd`
new(now, rnd) ==
    write_u32(to_ksuid_time(now)) \o SubSeq(rnd, TIMESTAMP_LENGTH + 1, BYTE_LENGTH)

\* Lines 104-108: decode's return value, and_then from_bytes
and_then_from_bytes(ret) == IF ret.ok THEN from_bytes(ret.value) ELSE ret

\* Lines 112-114
timestamp(self) == from_ksuid_time(read_u32(self, 0))

\* Lines 117-119
payload(self) == SubSeq(self, TIMESTAMP_LENGTH + 1, Len(self))

\* Lines 127-129
as_bytes(self) == self

----------------------------------------------------------------------------
(* Bounds and the inputs drawn within them *)

NumLimbValues == 3
NumTimes == 6
NumSubstChars == 4
MaxExtra == 1

Min(a, b) == IF a < b THEN a ELSE b

\* u32 limbs a 20-byte array is made of: 0, 2^32 - 1, 1, 62, 2^31
LimbList == << <<0, 0>>, <<65535, 65535>>, <<0, 1>>, <<0, 62>>, <<32768, 0>> >>
LimbValues == {LimbList[i] : i \in 1..Min(NumLimbValues, Len(LimbList))}

\* 20-byte arrays: five limbs, each from LimbValues
ByteArrays ==
    {write_u32(a) \o write_u32(b) \o write_u32(c) \o write_u32(d) \o write_u32(e) :
        a \in LimbValues, b \in LimbValues, c \in LimbValues,
        d \in LimbValues, e \in LimbValues}

\* What the random source fills 20 bytes with: one limb repeated
RandomFills ==
    {write_u32(a) \o write_u32(a) \o write_u32(a) \o write_u32(a) \o write_u32(a) :
        a \in LimbValues}

\* Byte slices handed to from_bytes: prefixes of the arrays, and the arrays
\* followed by extra bytes
SliceLens == {0, 2, BYTE_LENGTH - 1} \cup (BYTE_LENGTH .. BYTE_LENGTH + MaxExtra)
Slices == {Take(b \o Repeat(171, MaxExtra), l) : b \in ByteArrays, l \in SliceLens}

\* Payload slices handed to from_parts
PayloadList == <<Repeat(0, PAYLOAD_LENGTH),
                 <<1, 2, 3, 4, 5, 6, 7, 8, 9, 10, 11, 12, 13, 14, 15, 16>>,
                 Repeat(255, PAYLOAD_LENGTH)>>
Payloads ==
    {Take(PayloadList[i] \o Repeat(171, MaxExtra), l) :
        i \in 1..Len(PayloadList),
        l \in (PAYLOAD_LENGTH - 1) .. (PAYLOAD_LENGTH + MaxExtra)}

\* Calendar times, as second counts: in 2017; EPOCH_START; EPOCH_START - 1;
\* 1970-01-01; EPOCH_START + 2^32 - 1; EPOCH_START + 2^32; 1969; 2014
TimeList ==
    <<I64(EpochStart[1] + 1526, 123),
      EpochStart,
      I64(EpochStart[1], EpochStart[2] - 1),
      I64(0, 0),
      I64(EpochStart[1] + 65535, EpochStart[2] + 65535),
      I64(EpochStart[1] + 65536, EpochStart[2]),
      I64(-1, 0),
      I64(EpochStart[1], EpochStart[2] + 1)>>
Times ==
    {[secs |-> TimeList[i], nanos |-> ns] :
        i \in 1..Min(NumTimes, Len(TimeList)), ns \in {0, 999999999}}

\* Strings handed to from_base62: a base string with one character replaced,
\* cut or extended to a length around 27.
\* "0yEaNH85uGuB4bz7EoWhX228k65" is the string of tests::test_parse_golang.
BaseStrings ==
    {Repeat(48, 27), MAX_STRING_ENCODED, Repeat(122, 27),
     <<48, 121, 69, 97, 78, 72, 56, 53, 117, 71, 117, 66, 52, 98,
       122, 55, 69, 111, 87, 104, 88, 50, 50, 56, 107, 54, 53>>}
\* 'W', '{', '!', U+00E9, '0', '[', ':'
SubstList == <<87, 123, 33, 233, 48, 91, 58>>
SubstChars == {SubstList[i] : i \in 1..Min(NumSubstChars, Len(SubstList))}
SubstPositions == {1, 14, 27}
StringLens == {0, 26, 27, 28}
Strings ==
    {Take([b EXCEPT ![p] = c] \o <<48>>, l) :
        b \in BaseStrings, p \in SubstPositions, c \in SubstChars, l \in StringLens}

----------------------------------------------------------------------------
(* The state machine: a caller makes a KSUID, reads it, encodes it and parses
   the string back; or parses a string it was given. *)

EncodeIdle ==
    [pc |-> "idle", src |-> <<>>, parts |-> <<>>, parts_len |-> 0, n |-> 0,
     dst |-> <<>>]

Init ==
    /\ id = NoId
    /\ made = None
    /\ ts_read = None
    /\ enc = EncodeIdle
    /\ dec = DecodeIdle
    /\ parsed = None

Keep(ret) == IF ret.ok THEN ret.value ELSE id

\* KSUID::from_bytes(bytes), on a slice or on as_bytes() of the KSUID held
FromBytes ==
    /\ enc.pc = "idle" /\ dec.pc = "idle" /\ ts_read = None
    /\ \/ made = None
       \/ id # NoId /\ made.op # "from_bytes"
    /\ \E bytes \in (IF id = NoId THEN Slices ELSE {as_bytes(id)}) :
          /\ made' = [op |-> "from_bytes", bytes |-> bytes, ret |-> from_bytes(bytes)]
          /\ id' = Keep(from_bytes(bytes))
    /\ UNCHANGED <<ts_read, enc, dec, parsed>>

\* KSUID::from_parts(ts, payload)
FromParts ==
    /\ made = None /\ dec.pc = "idle"
    /\ \E ts \in Times, pl \in Payloads :
          /\ made' = [op |-> "from_parts", ts |-> ts, payload |-> pl,
                      ret |-> from_parts(ts, pl)]
          /\ id' = Keep(from_parts(ts, pl))
    /\ UNCHANGED <<ts_read, enc, dec, parsed>>

\* KSUID::new()
New ==
    /\ made = None /\ dec.pc = "idle"
    /\ \E now \in Times, rnd \in RandomFills :
          /\ made' = [op |-> "new", now |-> now, rnd |-> rnd, ret |-> Ok(new(now, rnd))]
          /\ id' = new(now, rnd)
    /\ UNCHANGED <<ts_read, enc, dec, parsed>>

\* KSUID::timestamp()
Timestamp ==
    /\ id # NoId /\ enc.pc = "idle" /\ ts_read = None
    /\ ts_read' = [op |-> "timestamp", time |-> timestamp(id)]
    /\ UNCHANGED <<id, made, enc, dec, parsed>>

\* KSUID::to_base62(): encode is entered
ToBase62 ==
    /\ id # NoId /\ enc.pc = "idle"
    /\ enc' = EncodeTest(EncodeEntry(id))
    /\ UNCHANGED <<id, made, ts_read, dec, parsed>>

\* One pass of encode's while loop
EncodeStep ==
    /\ enc.pc = "loop"
    /\ enc' = EncodePass(enc)
    /\ UNCHANGED <<id, made, ts_read, dec, parsed>>

\* KSUID::from_base62(string), on the string encode returned or on a given
\* string: decode is entered
FromBase62 ==
    /\ dec.pc = "idle"
    /\ \E string \in (IF enc.pc = "done" THEN {enc.dst}
                      ELSE IF made = None THEN Strings ELSE {}) :
          \E overflow_checks \in BOOLEAN :
              dec' = DecodeEntry(string, overflow_checks)
    /\ UNCHANGED <<id, made, ts_read, enc, parsed>>

\* One pass of decode's while loop
DecodeStep ==
    /\ dec.pc = "loop"
    /\ dec' = DecodePass(dec)
    /\ UNCHANGED <<id, made, ts_read, enc, parsed>>

\* decode has returned: from_base62 returns its value and_then from_bytes
FromBase62Return ==
    /\ dec.pc = "returned" /\ parsed = None
    /\ parsed' = and_then_from_bytes(dec.ret)
    /\ UNCHANGED <<id, made, ts_read, enc, dec>>

Next ==
    \/ FromBytes
    \/ FromParts
    \/ New
    \/ Timestamp
    \/ ToBase62
    \/ EncodeStep
    \/ FromBase62
    \/ DecodeStep
    \/ FromBase62Return

Spec == Init /\ [][Next]_vars

----------------------------------------------------------------------------
(* What the claims are stated in: the alphabet, the two orders, and the
   number a base-62 string denotes (by Horner's rule on a 21-byte big-endian
   accumulator: 62^27 < 2^168) *)

Alphabet == {BASE62_CHARS[i] : i \in 1..Len(BASE62_CHARS)}
InAlphabet(s) == \A i \in 1..Len(s) : s[i] \in Alphabet

\* Lexicographic order of two sequences of numbers.  On byte arrays of one
\* length it is the order of the big-endian unsigned numbers they hold; on
\* strings it is the order by code point.
RECURSIVE LexLessFrom(_, _, _)
LexLessFrom(a, b, i) ==
    IF i > Len(b) THEN FALSE
    ELSE IF i > Len(a) THEN TRUE
    ELSE IF a[i] # b[i] THEN a[i] < b[i]
    ELSE LexLessFrom(a, b, i + 1)
LexLess(a, b) == LexLessFrom(a, b, 1)

DigitOf(c) == CHOOSE d \in 0..61 : BASE62_CHARS[d + 1] = c

RECURSIVE MulAddFrom(_, _, _, _)
MulAddFrom(acc, i, m, carry) ==
    IF i = 0 THEN acc
    ELSE LET t == acc[i] * m + carry
         IN  MulAddFrom([acc EXCEPT ![i] = t % 256], i - 1, m, t \div 256)

RECURSIVE HornerFrom(_, _, _)
HornerFrom(s, i, acc) ==
    IF i > Len(s) THEN acc
    ELSE HornerFrom(s, i + 1, MulAddFrom(acc, Len(acc), 62, DigitOf(s[i])))

\* The number the base-62 string s denotes, as 21 big-endian bytes
NumberOf(s) == HornerFrom(s, 1, Repeat(0, 21))
\* It is below 2^160 when the first of the 21 bytes is 0
Below2Pow160(num) == num[1] = 0
Low20(num) == SubSeq(num, 2, 21)

AllFF == Repeat(255, 20)
AllZero == Repeat(0, 20)

----------------------------------------------------------------------------
(* C1 *)

\* C1: round trip.  When the string encode returned for the 20 bytes b is
\* decoded, decode returns Ok with exactly the bytes b (it does not fail and
\* does not panic), and from_base62 of id.to_base62() returns Ok(id).
C1_RoundTrip ==
    (enc.pc = "done" /\ dec.pc \notin {"idle", "loop"}) =>
        /\ dec.src = enc.dst
        /\ dec.pc = "returned"
        /\ dec.ret = Ok(enc.src)
        /\ parsed # None => parsed = Ok(id)

\* The round trip has been made on the all-0xFF identifier
C1_Witness ==
    /\ enc.pc = "done" /\ enc.src = AllFF /\ id = AllFF
    /\ dec.ret = Ok(AllFF) /\ parsed = Ok(AllFF)

----------------------------------------------------------------------------
(* C2 *)

\* Every array of ByteArrays with the string encode returns for it
EncodedArrays == {<<b, encode(b)>> : b \in ByteArrays}

\* C2: ordering preservation.  When encode has returned for the array b1, for
\* every array b2: b1 < b2 as big-endian unsigned numbers if and only if
\* encode(b1) < encode(b2) lexicographically by code point.
C2_OrderPreserved ==
    (enc.pc = "done" /\ dec.pc = "idle") =>
        \A e2 \in EncodedArrays :
            LexLess(enc.src, e2[1]) <=> LexLess(enc.dst, e2[2])

\* An array has been encoded whose string starts with an upper-case letter,
\* and it is below the all-0xFF array, whose string starts with a lower-case
\* letter, and above the all-zero array
C2_Witness ==
    /\ enc.pc = "done" /\ dec.pc = "idle"
    /\ enc.dst[1] \in 65..90
    /\ LexLess(enc.src, AllFF) /\ LexLess(enc.dst, encode(AllFF))
    /\ encode(AllFF)[1] \in 97..122
    /\ LexLess(AllZero, enc.src) /\ LexLess(encode(AllZero), enc.dst)

----------------------------------------------------------------------------
(* C3 *)

\* C3: encode is total and fixed-width.  In every step of encode: it does not
\* panic; the write index n stays at or above 0, and a pass lowers it by one;
\* a pass does not raise parts_len; and when the loop is left the string has
\* exactly 27 characters, all of the alphabet, those before index n being '0'.
C3_EncodeTotalFixedWidth ==
    [][ /\ enc'.pc # "panic"
        /\ enc'.n >= 0
        /\ (enc.pc = "loop" /\ enc' # enc) =>
              /\ enc'.n = enc.n - 1
              /\ enc'.parts_len <= enc.parts_len
        /\ enc'.pc = "done" =>
              /\ Len(enc'.dst) = 27
              /\ InAlphabet(enc'.dst)
              /\ \A i \in 1..enc'.n : enc'.dst[i] = 48 ]_vars

\* encode has returned for the all-0xFF array, after 27 passes that used every
\* position of the string
C3_Witness ==
    /\ enc.pc = "done" /\ enc.src = AllFF /\ enc.n = 0 /\ Len(enc.dst) = 27

----------------------------------------------------------------------------
(* C4 *)

\* C4: length rejection.  For every string shorter than 27 characters decode
\* fails, and the error is InvalidBase62Length.
C4_ShortIsLengthError ==
    (dec.pc \notin {"idle", "loop"} /\ Len(dec.src) < 27) =>
        /\ dec.pc = "returned"
        /\ ~dec.ret.ok
        /\ dec.ret.err = "InvalidBase62Length"

----------------------------------------------------------------------------
(* C5 *)

\* A byte outside the alphabet among the first 27 bytes of the string
BadByte(s) ==
    \E i \in 1..Min(27, Len(utf8(s))) : utf8(s)[i] \notin Alphabet

\* C5: character rejection.  decode rejects every string with a byte outside
\* the alphabet among its first 27 bytes: it never returns Ok for one.  (A
\* panic is counted as a rejection here.)
C5_BadCharacterRejected ==
    (dec.pc = "returned" /\ BadByte(dec.src)) => ~dec.ret.ok

----------------------------------------------------------------------------
(* C6 *)

\* C6: maximum case.  encode of twenty 0xFF bytes returns
\* "aWgEPTl1tmebfsQzFP4bxwgy80V".
C6_MaximumCase ==
    (enc.pc = "done" /\ enc.src = AllFF) => enc.dst = MAX_STRING_ENCODED

C6_Witness == enc.pc = "done" /\ enc.src = AllFF /\ dec.pc = "idle"

----------------------------------------------------------------------------
(* C7 *)

\* The input of the scenario: 0x00, 0x00, 0x00, 0x01 and 16 zero bytes
ScenarioInput == <<0, 0, 0, 1>> \o Repeat(0, 16)

\* C7 as stated: encode of the scenario's input returns 26 '0' characters
\* followed by '1'.
C7_ScenarioAsStated ==
    (enc.pc = "done" /\ enc.src = ScenarioInput) =>
        enc.dst = Repeat(48, 26) \o <<49>>

\* C7, amended: encode of the scenario's input, which holds the number 2^128,
\* returns "000007n42DGM5Tflk9n8mt7Fhc8"; 26 '0' characters followed by '1' is
\* what encode returns for 19 zero bytes followed by 0x01, the number 1.
C7_Scenario ==
    /\ (enc.pc = "done" /\ enc.src = ScenarioInput) =>
          enc.dst = <<48, 48, 48, 48, 48, 55, 110, 52, 50, 68, 71, 77, 53, 84,
                      102, 108, 107, 57, 110, 56, 109, 116, 55, 70, 104, 99, 56>>
    /\ (enc.pc = "done" /\ enc.src = Repeat(0, 19) \o <<1>>) =>
          enc.dst = Repeat(48, 26) \o <<49>>

C7_Witness == enc.pc = "done" /\ enc.src = ScenarioInput /\ dec.pc = "loop"

----------------------------------------------------------------------------
(* C8 *)

\* C8: from_bytes(s) fails exactly when s has fewer than 20 bytes, with
\* SliceTooSmall{length: len(s)}; otherwise it returns the identifier whose
\* bytes are the first 20 of s, so that from_bytes(id.as_bytes()) is id.
C8_FromBytes ==
    made.op = "from_bytes" =>
        /\ ~made.ret.ok <=> Len(made.bytes) < 20
        /\ ~made.ret.ok => made.ret = SliceTooSmall(Len(made.bytes))
        /\ made.ret.ok =>
              /\ Len(made.ret.value) = 20
              /\ \A i \in 1..20 : made.ret.value[i] = made.bytes[i]
              /\ id = made.ret.value

\* from_bytes has returned an identifier for a slice of more than 20 bytes
C8_Witness ==
    /\ made.op = "from_bytes" /\ Len(made.bytes) > 20
    /\ made.ret.ok /\ id = Take(made.bytes, 20) /\ id[4] = 1

----------------------------------------------------------------------------
(* C9 *)

\* The order of two i64 second counts
I64Less(a, b) == a[1] < b[1] \/ (a[1] = b[1] /\ a[2] < b[2])

\* EPOCH_START <= seconds(t) < EPOCH_START + 2^32
Representable(t) ==
    /\ ~I64Less(t.secs, EpochStart)
    /\ I64Less(t.secs, I64(EpochStart[1] + 65536, EpochStart[2]))

\* t truncated to 1-second resolution
Truncated(t) == [t EXCEPT !.nanos = 0]

\* C9 as stated: for every time t and every payload of at least 16 bytes,
\* from_parts succeeds and timestamp() of the result is t truncated to seconds.
C9_TimestampAsStated ==
    (made.op = "from_parts" /\ Len(made.payload) >= 16) =>
        /\ made.ret.ok
        /\ ts_read # None => ts_read.time = Truncated(made.ts)

\* C9, amended: from_parts succeeds for every time t and every payload of at
\* least 16 bytes, and timestamp() of the result is t truncated to seconds
\* for every t with EPOCH_START <= seconds(t) < EPOCH_START + 2^32.
C9_Timestamp ==
    (made.op = "from_parts" /\ Len(made.payload) >= 16) =>
        /\ made.ret.ok
        /\ (ts_read # None /\ Representable(made.ts)) =>
              ts_read.time = Truncated(made.ts)

\* timestamp() has been read on an identifier made from the last
\* representable second, with a sub-second part
C9_Witness ==
    /\ made.op = "from_parts" /\ made.ret.ok /\ ts_read # None
    /\ Representable(made.ts) /\ made.ts.nanos # 0
    /\ read_u32(id, 0) = <<65535, 65535>>
    /\ ts_read.time = Truncated(made.ts)

----------------------------------------------------------------------------
(* C10 *)

\* C10: the output budget.  For every string of 27 characters of the
\* alphabet, when decode has ended it has not panicked, it has failed with
\* InvalidBase62Length exactly when the number the string denotes is 2^160 or
\* more, and it has otherwise returned Ok with the 20 big-endian bytes of that
\* number.
C10_OutputBudget ==
    LET num == NumberOf(dec.src)
    IN  (/\ dec.pc \notin {"idle", "loop"}
         /\ parsed = None
         /\ Len(dec.src) = 27
         /\ InAlphabet(dec.src)) =>
            /\ dec.pc = "returned"
            /\ dec.ret = IF Below2Pow160(num)
                         THEN Ok(Low20(num))
                         ELSE InvalidBase62Length(dec.src)

\* decode has failed on the string of 2^160, one above the maximum
C10_Witness ==
    /\ dec.pc = "returned" /\ parsed = None
    /\ dec.src = [MAX_STRING_ENCODED EXCEPT ![27] = 87]
    /\ dec.ret = InvalidBase62Length(dec.src)
    /\ dec.n = 0

====
